---- MODULE Spec2Model ----
(***************************************************************************)
(* Model of the search pipeline of src/src/App.tsx: the App component's    *)
(* state (query, loading, result, error), the form handler handleSearch,   *)
(* the completion of the awaited provider call, and the extraction of the  *)
(* summary and the sources from the provider's response.                   *)
(*                                                                         *)
(* JavaScript values are tagged records: undefined, null, strings, objects *)
(* and arrays, so that truthiness, `||` and `?.` are computed as the       *)
(* language computes them.  The state is the state React commits: the      *)
(* setter calls of one synchronous run of the handler are one batch.       *)
(***************************************************************************)
EXTENDS Integers, Sequences, FiniteSets, TLC

VARIABLES
  query,    \* useState(''): the text of the input
  loading,  \* useState(false)
  result,   \* useState<SearchResult | null>(null)
  error,    \* useState<string | null>(null)
  pending,  \* the invocations suspended at their await, with their requests
  started,  \* how many handleSearch calls passed the guard
  issued,   \* how many generateContent calls were made
  now,      \* the clock
  lastOp,   \* the step taken last
  lastIn,   \* what it was given: the response, or the failure raised
  lastAt    \* when the invocation it completed had started, else -1

vars ==
  <<query, loading, result, error, pending, started, issued, now, lastOp,
    lastIn, lastAt>>

\* ------------------------------------------------------------------ bounds

\* Longest text typed into the input.
MaxLen == 2
\* Longest grounding-chunk list a response carries.
MaxChunks == 2
\* Number of accepted searches explored.
MaxCalls == 2
\* Number of clock ticks explored.
MaxClock == 1

\* ------------------------------------------------------- JavaScript values

JSUndefined == [t |-> "undefined"]
JSNull == [t |-> "null"]
Str(s) == [t |-> "string", v |-> s]
Arr(items) == [t |-> "array", items |-> items]

\* ToBoolean: undefined, null and "" are falsy; objects and arrays are truthy.
Truthy(x) ==
  CASE x.t = "undefined" -> FALSE
    [] x.t = "null" -> FALSE
    [] x.t = "string" -> x.v # ""
    [] OTHER -> TRUE

\* a || b
Or(a, b) == IF Truthy(a) THEN a ELSE b

Nullish(x) == x.t \in {"undefined", "null"}

\* ------------------------------------------------------------ the query

Chars == {" ", "a"}
IsSpace(c) == c = " "

Strings(n) == UNION {[1..k -> Chars] : k \in 0..n}

RECURSIVE TrimStart(_)
TrimStart(s) ==
  IF s = <<>> THEN <<>>
  ELSE IF IsSpace(Head(s)) THEN TrimStart(Tail(s)) ELSE s

RECURSIVE TrimEnd(_)
TrimEnd(s) ==
  IF s = <<>> THEN <<>>
  ELSE IF IsSpace(s[Len(s)]) THEN TrimEnd(SubSeq(s, 1, Len(s) - 1)) ELSE s

\* String.prototype.trim
Trim(s) == TrimEnd(TrimStart(s))

\* !query.trim(): the empty string is the only falsy string.
GuardNoTrim(q) == q = <<>>
IsBlank(q) == Trim(q) = <<>>

\* ----------------------------------------------------------- the request

PromptHead == "Provide a detailed public profile summary for the individual named: \""
PromptTail == "\". \n        Focus on professional background, public social media presence, known locations (if public), and notable achievements. \n        Format the output in clear sections. If multiple people share this name, provide brief summaries for the most prominent ones.\n        Maintain a professional, investigative tone."

\* The template literal: the query is interpolated as it stands.
Contents(q) == <<PromptHead>> \o q \o <<PromptTail>>

BuildRequest(q) ==
  [model |-> "gemini-3-flash-preview",
   contents |-> Contents(q),
   tools |-> <<"googleSearch">>]

\* ---------------------------------------------------- provider responses

Texts == {JSUndefined, JSNull, Str(""), Str("Jane Doe is a researcher")}
Uris == {JSUndefined, Str("https://example.com")}
Titles == {JSUndefined, Str("Example")}

WebRefs == {[t |-> "object", uri |-> u, title |-> ti] : u \in Uris, ti \in Titles}
Chunks ==
  {[t |-> "object", web |-> JSUndefined]}
    \cup {[t |-> "object", web |-> w] : w \in WebRefs}
ChunkLists(n) == UNION {[1..k -> Chunks] : k \in 0..n}

GroundingMetadatas ==
  {JSUndefined, [t |-> "object", groundingChunks |-> JSUndefined]}
    \cup {[t |-> "object", groundingChunks |-> Arr(l)] : l \in ChunkLists(MaxChunks)}
Candidates == {[t |-> "object", groundingMetadata |-> g] : g \in GroundingMetadatas}
CandidateLists ==
  {JSUndefined, Arr(<<>>)} \cup {Arr(<<c>>) : c \in Candidates}

\* What generateContent resolves with.
Responses == [text : Texts, candidates : CandidateLists]

\* What generateContent rejects with, or the client constructor throws.
Errors ==
  {[t |-> "object", message |-> m] :
     m \in {JSUndefined, Str(""), Str("Failed to fetch"),
            Str("An API Key must be set when running in a browser")}}

\* ----------------------------------------------------------- normalization

NoInformation == "No information found."
GenericError == "An error occurred during the investigation."

\* response.text || "No information found."
SummaryNoDefault(response) == response.text
Summary(response) == Or(response.text, Str(NoInformation))

\* a?.[0]
OptFirst(a) ==
  IF Nullish(a) THEN JSUndefined
  ELSE IF Len(a.items) = 0 THEN JSUndefined ELSE a.items[1]

\* o?.f
OptGet(o, f) == IF Nullish(o) THEN JSUndefined ELSE o[f]

\* response.candidates?.[0]?.groundingMetadata?.groundingChunks
GroundingChunks(response) ==
  OptGet(OptGet(OptFirst(response.candidates), "groundingMetadata"),
         "groundingChunks")

\* (c) => c.web
HasWeb(c) == Truthy(c.web)

\* (c) => ({ uri: c.web.uri, title: c.web.title })
ToSource(c) == [uri |-> c.web.uri, title |-> c.web.title]

\* The same sources, last chunk first.
SourcesReversed(response) ==
  LET chunks == GroundingChunks(response) IN
    IF Truthy(chunks)
    THEN LET kept == SelectSeq(chunks.items, HasWeb) IN
           [i \in 1..Len(kept) |-> ToSource(kept[Len(kept) + 1 - i])]
    ELSE <<>>

\* chunks ? chunks.filter(...).map(...) : []
Sources(response) ==
  LET chunks == GroundingChunks(response) IN
    IF Truthy(chunks)
    THEN LET kept == SelectSeq(chunks.items, HasWeb) IN
           [i \in 1..Len(kept) |-> ToSource(kept[i])]
    ELSE <<>>

\* new Date().toLocaleTimeString(): the clock counts seconds of the day.
ToLocaleTimeString(t) == <<(t \div 3600) % 24, (t \div 60) % 60, t % 60>>

\* The object handed to setResult.
Normalize(response, t) ==
  [t |-> "object",
   summary |-> Summary(response),
   sources |-> Sources(response),
   timestamp |-> ToLocaleTimeString(t)]

\* err.message || "An error occurred during the investigation."
ErrorMessageNoFallback(err) == err.message
ErrorMessage(err) == Or(err.message, Str(GenericError))

\* --------------------------------------------------------------- the state

Init ==
  /\ query = <<>>
  /\ loading = FALSE
  /\ result = JSNull
  /\ error = JSNull
  /\ pending = {}
  /\ started = 0
  /\ issued = 0
  /\ now = 0
  /\ lastOp = "init"
  /\ lastIn = JSNull
  /\ lastAt = -1

\* onChange={(e) => setQuery(e.target.value)}
SetQuery ==
  \E s \in Strings(MaxLen) :
    /\ query' = s
    /\ lastOp' = "setQuery"
    /\ lastIn' = JSNull
    /\ lastAt' = -1
    /\ UNCHANGED <<loading, result, error, pending, started, issued, now>>

\* The three setter calls that open a search.
Begin == [loading |-> TRUE, error |-> JSNull, result |-> JSNull]

\* handleSearch up to its await.  The client constructor either throws, and
\* catch and finally run in the same batch, or the call is issued and the
\* handler suspends.
HandleSearch ==
  /\ lastOp' = "handleSearch"
  /\ lastAt' = -1
  /\ UNCHANGED <<query, now>>
  /\ IF IsBlank(query)
     THEN /\ lastIn' = JSNull
          /\ UNCHANGED <<loading, result, error, pending, started, issued>>
     ELSE /\ started < MaxCalls
          /\ started' = started + 1
          /\ \/ /\ loading' = Begin.loading
                /\ error' = Begin.error
                /\ result' = Begin.result
                /\ issued' = issued + 1
                /\ lastIn' = JSNull
                /\ pending' = pending \cup
                     {[id |-> started + 1, at |-> now,
                       request |-> BuildRequest(query)]}
             \/ \E err \in Errors :
                  /\ loading' = FALSE
                  /\ error' = ErrorMessage(err)
                  /\ result' = Begin.result
                  /\ lastIn' = err
                  /\ UNCHANGED <<pending, issued>>

\* <button type="submit" disabled={loading}>
SubmitDisabled == loading

\* The form is submitted through its submit button.
SubmitForm == ~SubmitDisabled /\ HandleSearch

\* A submit event reaches the form without the button.
DispatchSubmit == HandleSearch

\* new Date() is evaluated in the continuation of invocation p, after the
\* await.
StartTime(p) == p.at
CompletionTime(p) == now

\* The awaited call of invocation p resolves with response: lines 102-114,
\* then finally.
ResolveWith(p, response) ==
  /\ p \in pending
  /\ pending' = pending \ {p}
  /\ result' = Normalize(response, CompletionTime(p))
  /\ loading' = FALSE
  /\ lastOp' = "resolve"
  /\ lastIn' = response
  /\ lastAt' = p.at
  /\ UNCHANGED <<query, error, started, issued, now>>

\* The response is stated through lastIn', which a step of ResolveWith sets
\* to it.
Resolve ==
  \E p \in pending : lastIn' \in Responses /\ ResolveWith(p, lastIn')

\* A catch block that issues the call once more.
RejectWithRetry(p, err) ==
  /\ p \in pending
  /\ pending' = (pending \ {p}) \cup {[p EXCEPT !.at = now]}
  /\ issued' = issued + 1
  /\ lastOp' = "reject"
  /\ lastIn' = err
  /\ lastAt' = p.at
  /\ UNCHANGED <<query, loading, result, error, started, now>>

\* A catch block with no finally after it.
RejectWithoutFinally(p, err) ==
  /\ p \in pending
  /\ pending' = pending \ {p}
  /\ error' = ErrorMessage(err)
  /\ lastOp' = "reject"
  /\ lastIn' = err
  /\ lastAt' = p.at
  /\ UNCHANGED <<query, loading, result, started, issued, now>>

\* The awaited call of invocation p rejects with err: catch, then finally.
RejectWith(p, err) ==
  /\ p \in pending
  /\ pending' = pending \ {p}
  /\ error' = ErrorMessage(err)
  /\ loading' = FALSE
  /\ lastOp' = "reject"
  /\ lastIn' = err
  /\ lastAt' = p.at
  /\ UNCHANGED <<query, result, started, issued, now>>

Reject == \E p \in pending, err \in Errors : RejectWith(p, err)

\* Time passes.
Tick ==
  /\ now < MaxClock
  /\ now' = now + 1
  /\ lastOp' = "tick"
  /\ lastIn' = JSNull
  /\ lastAt' = -1
  /\ UNCHANGED <<query, loading, result, error, pending, started, issued>>

Next == SetQuery \/ SubmitForm \/ Resolve \/ Reject \/ Tick

Spec == Init /\ [][Next]_vars

\* The provider call of a suspended invocation completes in the end.
SpecLive == Spec /\ WF_vars(Resolve \/ Reject)

NextDirect == SetQuery \/ DispatchSubmit \/ Resolve \/ Reject \/ Tick

SpecDirect == Init /\ [][NextDirect]_vars

\* {error && (<div>...{error}</div>)}: the banner depends on error alone.
ShowsBanner == Truthy(error)

\* {loading ? loader : result ? report : placeholder}: what the report card
\* holds.
Card ==
  IF loading THEN "loader"
  ELSE IF Truthy(result) THEN "report"
  ELSE "placeholder"

\* The pipeline state the page shows: one of the four when the card and the
\* banner agree on it, and "Mixed" when the banner is shown together with the
\* loader or with the report.
PipelineState ==
  CASE Card = "loader" /\ ~ShowsBanner -> "Running"
    [] Card = "report" /\ ~ShowsBanner -> "Succeeded"
    [] Card = "placeholder" /\ ShowsBanner -> "Failed"
    [] Card = "placeholder" /\ ~ShowsBanner -> "Idle"
    [] OTHER -> "Mixed"

\* ------------------------------------------------------------------ claims

\* C1: a handleSearch call whose query is empty or whitespace-only after
\* trimming changes none of loading, result, error, and issues no provider
\* call.
C1_BlankInputIsNoOp ==
  [][(lastOp' = "handleSearch" /\ Trim(query) = <<>>)
       => UNCHANGED <<loading, result, error, pending, started, issued>>]_vars

\* handleSearch just ran on a whitespace-only query while a report was shown,
\* and the report is still there.
C1_Witness ==
  /\ lastOp = "handleSearch"
  /\ query # <<>>
  /\ Trim(query) = <<>>
  /\ result # JSNull
  /\ ~loading

\* C2 as stated: the step of handleSearch that issues the provider call leaves
\* no result and no error, and whatever handleSearch calls and completions
\* are taken, no step leaves the result or the error of an invocation in the
\* state while the call of a newer invocation is pending.
C2_NoStaleWhilePending ==
  [][/\ (lastOp' = "handleSearch" /\ issued' = issued + 1)
          => (result' = JSNull /\ error' = JSNull)
     /\ \A p \in pending :
          (pending' = pending \ {p} /\ \E q \in pending' : q.id > p.id)
            => (result' = JSNull /\ error' = JSNull)]_vars

\* C3 as stated: from Running the next state is Succeeded or Failed, never
\* Idle, and no step leads from Idle, Succeeded or Failed directly into
\* Succeeded or Failed.
C3_ThroughRunning ==
  [][/\ PipelineState = "Running" => PipelineState' # "Idle"
     /\ (PipelineState # "Running" /\ PipelineState' \in {"Succeeded", "Failed"})
          => UNCHANGED <<loading, result, error>>]_vars

\* C4 as stated: at most one provider call is in flight, also when
\* handleSearch runs while the call of an earlier invocation is pending.
C4_AtMostOneInFlight == Cardinality(pending) <= 1

\* C5 as stated: the completion of an invocation older than the most recently
\* started one writes neither result nor error.
C5_LastCallWins ==
  [][\A p \in pending :
       (p.id < started /\ pending' = pending \ {p})
         => UNCHANGED <<result, error>>]_vars

\* C6 as stated: whatever handleSearch calls and completions are taken, the
\* page shows exactly one of Idle, Running, Succeeded, Failed, and at most one
\* of loading, a result, an error is present.
C6_ExactlyOneState ==
  /\ PipelineState \in {"Idle", "Running", "Succeeded", "Failed"}
  /\ ~(loading /\ result # JSNull)
  /\ ~(loading /\ error # JSNull)
  /\ ~(result # JSNull /\ error # JSNull)

\* The message the claim expects for a failure.
ExpectedMessage(err) ==
  IF err.message.t = "string" /\ err.message.v # ""
  THEN err.message
  ELSE Str(GenericError)

\* C7: a failing provider call, and a client constructor that throws, leave
\* the state Failed: error is the failure's message if it has one, else the
\* generic sentence; result is null; loading is false.
C7_FailureBecomesFailed ==
  (lastOp \in {"reject", "handleSearch"} /\ lastIn \in Errors)
    => /\ error = ExpectedMessage(lastIn)
       /\ error.v # ""
       /\ result = JSNull
       /\ ~loading
       /\ PipelineState = "Failed"

\* A call was rejected with no message: the generic sentence is shown.
C7_Witness ==
  /\ lastOp = "reject"
  /\ lastIn.message = JSUndefined
  /\ error = Str(GenericError)
  /\ result = JSNull
  /\ ~loading

\* A Source with both fields strings.
WellFormedSource(s) == s.uri.t = "string" /\ s.title.t = "string"

\* A SearchResult as the interface declares it.
WellFormedResult(r) ==
  /\ r.t = "object"
  /\ r.summary.t = "string"
  /\ r.summary.v # ""
  /\ \A i \in 1..Len(r.sources) : WellFormedSource(r.sources[i])

\* C8 as stated: every resolved call ends in Succeeded with a well-formed
\* SearchResult, and not in Failed.
C8_NormalizationNeverFails ==
  lastOp = "resolve"
    => /\ PipelineState = "Succeeded"
       /\ error = JSNull
       /\ WellFormedResult(result)

\* The sources the claim expects: chunks without web dropped, a missing uri
\* or title replaced by the empty string.
DefaultEmpty(x) == IF x.t = "string" THEN x ELSE Str("")

ExpectedSources(response) ==
  LET chunks == GroundingChunks(response)
      items == IF chunks.t = "array" THEN chunks.items ELSE <<>>
      kept == SelectSeq(items, LAMBDA c : c.web.t = "object")
  IN [i \in 1..Len(kept) |->
        [uri |-> DefaultEmpty(kept[i].web.uri),
         title |-> DefaultEmpty(kept[i].web.title)]]

\* C9 as stated: the sources of a result are the chunks that carry web, a
\* missing uri or title being the empty string.
C9_SourceDefaulting ==
  lastOp = "resolve" => result.sources = ExpectedSources(lastIn)

\* The summary the claim expects.
ExpectedSummary(response) ==
  IF response.text.t = "string" /\ response.text.v # ""
  THEN response.text
  ELSE Str(NoInformation)

\* C10: the summary of a result is the response's text when it is a non-empty
\* string and "No information found." otherwise, so never empty; without a
\* chunk list, or with no candidates, sources is empty.
C10_SummaryDefaulting ==
  lastOp = "resolve"
    => /\ result.summary = ExpectedSummary(lastIn)
       /\ result.summary.t = "string"
       /\ result.summary.v # ""
       /\ (\/ Nullish(lastIn.candidates)
           \/ lastIn.candidates.items = <<>>
           \/ Nullish(lastIn.candidates.items[1].groundingMetadata)
           \/ Nullish(lastIn.candidates.items[1].groundingMetadata.groundingChunks))
            => result.sources = <<>>

\* Scenario D: no text and no candidates.
C10_Witness ==
  /\ lastOp = "resolve"
  /\ lastIn = [text |-> JSNull, candidates |-> Arr(<<>>)]
  /\ result # JSNull
  /\ result.summary = Str(NoInformation)
  /\ result.sources = <<>>

\* The chunks of a list that carry a web reference, in the order of the list.
RECURSIVE Qualifying(_)
Qualifying(items) ==
  IF items = <<>> THEN <<>>
  ELSE IF Head(items).web.t = "object"
       THEN <<Head(items)>> \o Qualifying(Tail(items))
       ELSE Qualifying(Tail(items))

\* The chunk list of a response, empty when the response carries none.
ChunkItems(response) ==
  LET chunks == GroundingChunks(response) IN
    IF chunks.t = "array" THEN chunks.items ELSE <<>>

\* C11: the sources of a result are, one for one and in the same order, the
\* chunks of the response that carry a web reference: source i has the uri and
\* the title of the i-th such chunk.
C11_SourcesKeepOrder ==
  lastOp = "resolve"
    => LET q == Qualifying(ChunkItems(lastIn)) IN
         /\ Len(result.sources) = Len(q)
         /\ \A i \in 1..Len(q) :
              /\ result.sources[i].uri = q[i].web.uri
              /\ result.sources[i].title = q[i].web.title

\* A response with two chunks that carry different web references gave two
\* different sources, the first chunk's first.
C11_Witness ==
  /\ lastOp = "resolve"
  /\ Len(ChunkItems(lastIn)) = 2
  /\ Len(result.sources) = 2
  /\ result.sources[1] # result.sources[2]
  /\ result.sources[1].uri = ChunkItems(lastIn)[1].web.uri
  /\ result.sources[1].title = ChunkItems(lastIn)[1].web.title

\* C12 as stated: as many provider calls were issued as handleSearch calls
\* passed the guard.
C12_OneCallPerInvocation == issued = started

\* C12, amended: a handleSearch call that passes the guard issues one provider
\* call, or none when the client constructor throws, and then fails at once;
\* no other step issues a call, so a failed call is not retried and the calls
\* issued never outnumber the accepted searches.
C12_AtMostOneCallNoRetry ==
  /\ [](issued <= started)
  /\ [][/\ issued' \in {issued, issued + 1}
        /\ issued' = issued + 1
             => /\ started' = started + 1
                /\ lastOp' = "handleSearch"
                /\ Cardinality(pending') = Cardinality(pending) + 1
        /\ started' = started + 1
             => \/ issued' = issued + 1
                \/ /\ lastIn' \in Errors
                   /\ pending' = pending
                   /\ PipelineState' = "Failed"
        /\ lastOp' \in {"resolve", "reject"}
             => /\ issued' = issued
                /\ Cardinality(pending') = Cardinality(pending) - 1]_vars

\* Two searches were accepted: for one the constructor threw, the other's
\* call was issued and rejected, and no call is pending.
C12_Witness ==
  /\ lastOp = "reject"
  /\ started = 2
  /\ issued = 1
  /\ pending = {}

\* Whether sequence s occurs in sequence t as a contiguous part.
Contains(t, s) ==
  \E i \in 0..(Len(t) - Len(s)) : SubSeq(t, i + 1, i + Len(s)) = s

\* C13 as stated: the request just issued has a prompt that contains the
\* subject name, the trimmed input, has the web-search tool enabled, and is
\* the request of that subject name alone: the one built for the trimmed
\* input itself.
C13_RequestFromSubjectName ==
  (lastOp = "handleSearch" /\ loading /\ lastIn = JSNull)
    => \A p \in pending :
         p.id = started
           => /\ Contains(p.request.contents, Trim(query))
              /\ \E i \in 1..Len(p.request.tools) :
                   p.request.tools[i] = "googleSearch"
              /\ p.request = BuildRequest(Trim(query))

\* C14: a search that is loading ends, once its provider call completes, in
\* Succeeded or Failed with loading false; the continuation resets loading
\* after a resolved call and after a rejected one.
C14_EventuallyLeavesRunning ==
  /\ [](lastOp \in {"resolve", "reject"}
          => (~loading /\ PipelineState \in {"Succeeded", "Failed"}))
  /\ loading ~> (~loading /\ PipelineState \in {"Succeeded", "Failed"})

\* A pending call was rejected and the state is Failed, not loading.
C14_Witness ==
  /\ lastOp = "reject"
  /\ issued >= 1
  /\ pending = {}
  /\ ~loading
  /\ PipelineState = "Failed"

\* C15 as stated: loading is true exactly while a provider call is pending,
\* also when an older call completes while a newer one is pending.
C15_LoadingIffPending == loading <=> (pending # {})

\* C16: the timestamp of a result is the formatted clock value at the moment
\* the call resolved, not the one at which the invocation started.
C16_TimestampAtCompletion ==
  lastOp = "resolve" => result.timestamp = ToLocaleTimeString(now)

\* The clock advanced between the start of the invocation and the completion
\* of its call, and the result carries the later time.
C16_Witness ==
  /\ lastOp = "resolve"
  /\ lastAt >= 0
  /\ lastAt < now
  /\ result.timestamp = ToLocaleTimeString(now)
  /\ result.timestamp # ToLocaleTimeString(lastAt)

====
